---- MODULE Spec2Model ----
(***************************************************************************)
(* Model of Downloader.py: the download-and-trim pipeline                  *)
(* (download_and_clip, run_command, get_video_title) together with the     *)
(* part of YTClipperApp that starts, cancels and ends a run (trim_clip,    *)
(* download_task, cancel_operation, reset_form).                           *)
(*                                                                         *)
(* External processes (yt-dlp --get-title, yt-dlp, ffmpeg) are opaque:     *)
(* each one, once spawned, runs until it exits on its own with some exit   *)
(* code, having written its output file or not.  The file system is        *)
(* reliable (an unlink of an existing file removes it) and only this       *)
(* program and the processes it spawns touch the output folder.            *)
(***************************************************************************)
EXTENDS Integers, Sequences, FiniteSets, TLC

VARIABLES
    \* ---- YTClipperApp ----
    url,               \* self.url
    cancel_flag,       \* self.cancel_flag
    trim_btn,          \* state of self.trim_btn: "normal" | "disabled"
    cancel_btn,        \* state of self.cancel_btn
    trim_another_btn,  \* TRUE iff self.trim_another_btn is packed (visible)
    status_area,       \* self.status_area: "empty", or "text" when it shows some line
    threads,           \* number of live download_task threads
    finishing,         \* TRUE iff a download_task thread is between its last two statements
    sent,              \* lines handed to set_status since the run was started
    \* ---- download_and_clip (locals of the worker) ----
    pc,                \* position of the worker
    i,                 \* index into player_clients of the current iteration
    video_title,       \* "none" | "titled" | "stamp"
    download_success,
    process,           \* the local `process`: "none" | "ytdlp" | "ffmpeg"
    code,              \* the local `code`
    \* ---- environment ----
    running,           \* the external process now running: "none" | "title" | "ytdlp" | "ffmpeg"
    returncode,        \* exit status of the last external process that exited
    disk,              \* files present in the output folder
    \* ---- history of the current run (read by the properties only) ----
    attempts,          \* downloader attempts made, in order
    started,           \* external processes spawned, in order
    outcome,           \* terminal status line reported by the run
    terms,             \* for each process.terminate() call, the state of its target
    hist,              \* record of flags about the run
    \* ---- the helper functions on their own ----
    fn                 \* input and result of one call of a helper function

vars == <<url, cancel_flag, trim_btn, cancel_btn, trim_another_btn, status_area,
          threads, pc, i, video_title, download_success, process, code,
          running, returncode, disk, attempts, started, outcome, terms, hist,
          finishing, sent, fn>>

gui    == <<url, cancel_flag, trim_btn, cancel_btn, trim_another_btn, threads,
           finishing, fn>>
locals == <<i, video_title, download_success, process, code>>

----------------------------------------------------------------------------
(* Bounds *)

\* "Cancelling..." lines a run may send before Cancel is pressed no more
MaxCancelLines == 1

----------------------------------------------------------------------------
(* Helper functions *)

\* URLs the user may type, as (scheme, www., host, rest after the host)
Urls ==
    { [scheme |-> "https://", www |-> TRUE,  host |-> "youtube.com", rest |-> "/watch?v=abc123"],
      [scheme |-> "https://", www |-> FALSE, host |-> "vimeo.com",   rest |-> "/123"] }

NoUrl == [scheme |-> "", www |-> FALSE, host |-> "", rest |-> ""]

\* (mutant) the host is not looked at
is_valid_url_any_host(u) ==
    /\ u.scheme \in {"", "http://", "https://"}
    /\ u.rest \notin {"", "/"}

\* re.match(r"^(https?://)?(www\.)?(youtube\.com|youtu\.be)/.+$", url)
is_valid_url(u) ==
    /\ u.scheme \in {"", "http://", "https://"}
    /\ u.host \in {"youtube.com", "youtu.be"}
    /\ u.rest \notin {"", "/"}

\* An entry field after strip(): empty, an integer numeral, or other text
Field(n) == [k |-> "int", v |-> n]
Empty    == [k |-> "empty", v |-> 0]
Text     == [k |-> "text", v |-> 0]

\* The (h, m, s) triples the user may type
Times ==
    { <<Field(0), Field(1), Empty>>,
      <<Field(23), Field(59), Field(59)>>,
      <<Field(0), Field(60), Field(0)>>,
      <<Field(0), Text, Field(0)>> }

\* int(x) if x else 0 ; int() of other text raises ValueError
Parses(f) == f.k # "text"
IntOf(f)  == IF f.k = "int" THEN f.v ELSE 0

is_valid_time(t) ==
    IF Parses(t[1]) /\ Parses(t[2]) /\ Parses(t[3])
    THEN /\ 0 <= IntOf(t[1]) /\ IntOf(t[1]) <= 23
         /\ 0 <= IntOf(t[2]) /\ IntOf(t[2]) <= 59
         /\ 0 <= IntOf(t[3]) /\ IntOf(t[3]) <= 59
    ELSE FALSE

----------------------------------------------------------------------------
(* download_and_clip: names *)

player_clients == <<"android", "web", "ios">>

\* The two files of a run.  The model follows one pair of names: a video that is
\* requested again with the same bounds gets the same pair, so a run may find
\* on disk what an earlier run left there.
full_output    == "full"
clipped_output == "clip"

\* (mutant) the line does not reach the sink
status_callback_lost(msg) ==
    /\ status_area' = "text"
    /\ UNCHANGED sent

status_callback(msg) ==
    /\ status_area' = "text"
    /\ sent' = Append(sent, msg)

\* No call of a helper function is being followed
NoFn == [op |-> "none"]

NoHist == [enteredCancelled |-> FALSE,   \* cancel predicate true on entry
           cancelReq        |-> FALSE,   \* cancel requested since the last poll
           polled           |-> FALSE,   \* a poll was made since the last attempt was resolved
           pending          |-> FALSE,   \* cancelReq as the last pre-attempt poll found it
           trimStarted      |-> FALSE,   \* run_command(ffmpeg_cmd) was called
           trimPending      |-> FALSE,   \* cancel requested between the download's check and the ffmpeg launch
           cancelInTrim     |-> FALSE,   \* cancel requested between the ffmpeg launch and its check
           pollTrue         |-> FALSE,   \* the last post-exit poll returned true
           clipWritten      |-> FALSE]   \* this run's ffmpeg wrote the clip file

\* The application after YTClipperApp.__init__
Constructed ==
    /\ url = NoUrl
    /\ cancel_flag = FALSE
    /\ trim_btn = "normal"
    /\ cancel_btn = "normal"
    /\ trim_another_btn = FALSE
    /\ status_area = "empty"
    /\ threads = 0
    /\ pc = "idle"
    /\ i = 1
    /\ video_title = "none"
    /\ download_success = FALSE
    /\ process = "none"
    /\ code = 0
    /\ running = "none"
    /\ returncode = 0
    /\ disk = {}
    /\ attempts = << >>
    /\ started = << >>
    /\ outcome = "none"
    /\ terms = << >>
    /\ hist = NoHist
    /\ finishing = FALSE
    /\ sent = << >>

Init == Constructed /\ fn = NoFn

----------------------------------------------------------------------------
(* YTClipperApp: the user's actions *)

CancelLines == Cardinality({k \in DOMAIN sent : sent[k] = "Cancelling..."})

\* trim_clip with an invalid URL or time: messagebox.showerror and return
trim_clip_rejected(u, st, en) ==
    /\ trim_btn = "normal"
    /\ ~(is_valid_url(u) /\ is_valid_time(st) /\ is_valid_time(en))
    /\ url' = u
    /\ UNCHANGED <<cancel_flag, trim_btn, cancel_btn, trim_another_btn, status_area, sent,
                   threads, pc, locals, running, returncode, disk, attempts, started, outcome,
                   terms, hist, finishing, fn>>

\* (mutant) the Trim button is left enabled during the run
trim_btn_during_run_normal == "normal"

\* self.trim_btn.config(state='disabled'): the Trim button while a run goes on
trim_btn_during_run == "disabled"

\* trim_clip with valid input: clears the status area, sets the buttons, resets
\* the cancel flag and starts the download_task thread
trim_clip_started(u, st, en) ==
    /\ trim_btn = "normal"
    /\ is_valid_url(u) /\ is_valid_time(st) /\ is_valid_time(en)
    /\ url' = u
    /\ status_area' = "empty"
    /\ sent' = << >>
    /\ trim_btn' = trim_btn_during_run
    /\ cancel_btn' = "normal"
    /\ cancel_flag' = FALSE
    /\ threads' = threads + 1
    /\ pc' = "entry"
    /\ UNCHANGED <<trim_another_btn, locals, running, returncode, disk, attempts, started,
                   outcome, terms, hist, finishing, fn>>

trim_clip ==
    \E u \in Urls, st \in Times, en \in Times :
        \/ trim_clip_rejected(u, st, en)
        \/ trim_clip_started(u, st, en)

\* A run is between the start of its thread and the return of download_and_clip
InRun == pc \notin {"idle", "returned"}

\* The transcoder was spawned and its result is not yet evaluated
InTrim ==
    /\ pc \in {"trim_wait", "trim_resolve"}
    /\ \E k \in DOMAIN started : started[k] = "ffmpeg"

cancel_operation ==
    /\ cancel_btn = "normal"
    /\ CancelLines < MaxCancelLines
    /\ cancel_flag' = TRUE
    /\ status_area' = "text"
    /\ sent' = IF pc # "idle" THEN Append(sent, "Cancelling...") ELSE sent
    /\ hist' = IF InRun
               THEN [hist EXCEPT !.cancelReq = TRUE,
                                 !.cancelInTrim = @ \/ InTrim]
               ELSE hist
    /\ UNCHANGED <<url, trim_btn, cancel_btn, trim_another_btn, threads, pc, locals,
                   running, returncode, disk, attempts, started, outcome, terms,
                   finishing, fn>>

reset_form ==
    /\ trim_another_btn
    /\ url' = NoUrl
    /\ status_area' = "empty"
    /\ trim_another_btn' = FALSE
    /\ cancel_flag' = FALSE
    /\ UNCHANGED <<trim_btn, cancel_btn, threads, pc, locals, running, returncode, disk,
                   attempts, started, outcome, terms, hist, finishing, sent, fn>>

\* download_task after download_and_clip has returned, up to the re-enabling of
\* the Trim button; the frame of download_and_clip and the history of the run
\* end here.  (The last statement of an earlier thread has run by then.)
download_task_end ==
    /\ pc = "returned" /\ ~finishing
    /\ trim_another_btn' = (trim_another_btn \/ (outcome # "raised" /\ ~cancel_flag))
    /\ trim_btn' = "normal"
    /\ finishing' = TRUE
    /\ pc' = "idle"
    /\ i' = 1 /\ video_title' = "none" /\ download_success' = FALSE
    /\ process' = "none" /\ code' = 0 /\ returncode' = 0
    /\ attempts' = << >> /\ started' = << >> /\ outcome' = "none" /\ terms' = << >>
    /\ hist' = NoHist
    /\ sent' = << >>
    /\ UNCHANGED <<url, cancel_flag, cancel_btn, threads, status_area, running, disk, fn>>

\* The last statement of download_task: the Cancel button is disabled, the
\* thread ends
download_task_exit ==
    /\ finishing
    /\ cancel_btn' = "disabled"
    /\ threads' = threads - 1
    /\ finishing' = FALSE
    /\ UNCHANGED <<url, cancel_flag, trim_btn, trim_another_btn, status_area, sent, pc,
                   locals, running, returncode, disk, attempts, started, outcome,
                   terms, hist, fn>>

----------------------------------------------------------------------------
(* External processes.  A spawned process runs until it exits by itself.  *)

ExitCodes == {0, 1}

\* yt-dlp --get-title exits
title_exit ==
    /\ running = "title"
    /\ \E rc \in ExitCodes : returncode' = rc
    /\ running' = "none"
    /\ UNCHANGED <<gui, status_area, sent, pc, locals, disk, attempts, started, outcome,
                   terms, hist>>

\* yt-dlp exits, having left a file at the -o path or not
ytdlp_exit ==
    /\ running = "ytdlp"
    /\ \E rc \in ExitCodes, wrote \in BOOLEAN :
         /\ returncode' = rc
         /\ disk' = IF wrote THEN disk \cup {full_output} ELSE disk
    /\ running' = "none"
    /\ UNCHANGED <<gui, status_area, sent, pc, locals, attempts, started, outcome, terms,
                   hist>>

\* ffmpeg exits, having left a (complete or partial) output file or not
ffmpeg_exit ==
    /\ running = "ffmpeg"
    /\ \E rc \in ExitCodes, wrote \in BOOLEAN :
         /\ returncode' = rc
         /\ disk' = IF wrote THEN disk \cup {clipped_output} ELSE disk
         /\ hist' = [hist EXCEPT !.clipWritten = wrote]
    /\ running' = "none"
    /\ UNCHANGED <<gui, status_area, sent, pc, locals, attempts, started, outcome, terms>>

----------------------------------------------------------------------------
(* download_and_clip: the worker *)

env == <<running, returncode, disk>>

\* (mutant) the worker never sees the cancel request
cancel_callback_never == FALSE

\* cancel_callback(): YTClipperApp.is_cancelled
cancel_callback == cancel_flag

\* What Popen.terminate() finds: run_command has already waited for the process
ProcState(p) == IF running = p THEN "running" ELSE "exited"

\* if process: process.terminate(); process.wait(timeout=5) / process.kill()
Terminate ==
    terms' = IF process # "none" THEN Append(terms, ProcState(process)) ELSE terms

Attempt(name, spawned, ownPoll, pending) ==
    [name |-> name, spawned |-> spawned, fileAtLaunch |-> full_output \in disk,
     ownPoll |-> ownPoll, pending |-> pending,
     code |-> -1, present |-> FALSE, leftover |-> FALSE, verdict |-> "pending"]

\* The last attempt, resolved
Resolved(verdict) ==
    [attempts EXCEPT ![Len(attempts)] =
        [@ EXCEPT !.code = code, !.present = full_output \in disk,
                  !.leftover = full_output \in disk', !.verdict = verdict]]

\* (mutant) the exit code alone decides
attempt_ok_code_only == code = 0

\* code == 0 and Path(full_output).exists()
attempt_ok == code = 0 /\ full_output \in disk

\* (mutant) the loop does not break on success
after_attempt_no_break(ok) ==
    IF i >= Len(player_clients)
    THEN [pc |-> "after_loop", i |-> i]
    ELSE [pc |-> "loop_head", i |-> i + 1]

\* Where the for loop goes after an attempt: break on success, else the next client
after_attempt(ok) ==
    IF ok \/ i >= Len(player_clients)
    THEN [pc |-> "after_loop", i |-> i]
    ELSE [pc |-> "loop_head", i |-> i + 1]

\* (mutant) the fallback is tried whatever the loop found
need_generic_always == TRUE

\* (mutant) the failed loop falls through to the trim step
need_generic_never == FALSE

\* if not download_success:
need_generic == ~download_success

\* Entry: "Starting download...", mkdir
dc_enter ==
    /\ pc = "entry"
    /\ status_callback("Starting download...")
    /\ \/ /\ pc' = "get_title"
          /\ outcome' = "none"
       \/ \* download_dir.mkdir raises: the exception leaves download_and_clip
          /\ pc' = "returned"
          /\ outcome' = "raised"
    /\ i' = 1 /\ video_title' = "none" /\ download_success' = FALSE
    /\ process' = "none" /\ code' = 0
    /\ attempts' = << >> /\ started' = << >> /\ terms' = << >>
    /\ hist' = [NoHist EXCEPT !.enteredCancelled = cancel_flag,
                              !.cancelReq = cancel_flag]
    /\ UNCHANGED <<gui, env>>

\* get_video_title: subprocess.run is started, or raises and the title is None
get_title_call ==
    /\ pc = "get_title"
    /\ \/ /\ running' = "title"
          /\ started' = Append(started, "title")
          /\ pc' = "title_wait"
          /\ UNCHANGED <<video_title, status_area, sent>>
       \/ /\ video_title' = "stamp"
          /\ status_callback("Downloading")
          /\ pc' = "loop_head"
          /\ UNCHANGED <<running, started>>
    /\ UNCHANGED <<gui, i, download_success, process, code, returncode, disk,
                   attempts, outcome, terms, hist>>

\* get_video_title returns; file names are built; "Downloading: <title>"
get_title_return ==
    /\ pc = "title_wait" /\ running = "none"
    /\ video_title' = IF returncode = 0 THEN "titled" ELSE "stamp"
    /\ status_callback("Downloading")
    /\ pc' = "loop_head"
    /\ UNCHANGED <<gui, i, download_success, process, code, env, attempts, started,
                   outcome, terms, hist>>

\* Head of the loop body: the poll before the attempt, "Trying <client> ..."
loop_poll ==
    /\ pc = "loop_head"
    /\ IF cancel_callback
       THEN /\ status_callback("Download cancelled.")
            /\ outcome' = "download_cancelled"
            /\ pc' = "returned"
       ELSE /\ status_callback("Trying " \o player_clients[i])
            /\ pc' = "launch"
            /\ UNCHANGED outcome
    /\ hist' = [hist EXCEPT !.polled = TRUE, !.pending = hist.cancelReq,
                            !.cancelReq = FALSE]
    /\ UNCHANGED <<gui, locals, env, attempts, started, terms>>

\* process = None; run_command(ytdlp_cmd, set_process): Popen, or Popen raises
client_launch ==
    /\ pc = "launch"
    /\ \/ /\ process' = "ytdlp"
          /\ running' = "ytdlp"
          /\ started' = Append(started, "ytdlp")
          /\ attempts' = Append(attempts,
                 Attempt(player_clients[i], TRUE, hist.polled, hist.pending))
          /\ pc' = "wait"
          /\ UNCHANGED code
       \/ /\ process' = "none"
          /\ code' = 1
          /\ attempts' = Append(attempts,
                 Attempt(player_clients[i], FALSE, hist.polled, hist.pending))
          /\ pc' = "resolve"
          /\ UNCHANGED <<running, started>>
    /\ UNCHANGED <<gui, status_area, sent, i, video_title, download_success, returncode,
                   disk, outcome, terms, hist>>

\* process.communicate() returns once the process has exited
client_return ==
    /\ pc = "wait" /\ running = "none"
    /\ code' = returncode
    /\ pc' = "resolve"
    /\ UNCHANGED <<gui, status_area, sent, i, video_title, download_success, process, env,
                   attempts, started, outcome, terms, hist>>

\* The poll after the process, then success / failure with cleanup
client_resolve ==
    /\ pc = "resolve"
    /\ hist' = [hist EXCEPT !.polled = FALSE, !.cancelReq = FALSE,
                            !.pollTrue = cancel_flag]
    /\ IF cancel_callback
       THEN /\ Terminate
            /\ status_callback("Download cancelled.")
            /\ outcome' = "download_cancelled"
            /\ UNCHANGED disk
            /\ attempts' = Resolved("cancelled")
            /\ pc' = "returned"
            /\ UNCHANGED <<i, download_success>>
       ELSE /\ IF attempt_ok
               THEN /\ status_callback("Download successful using " \o player_clients[i])
                    /\ download_success' = TRUE
                    /\ UNCHANGED disk
                    /\ attempts' = Resolved("success")
               ELSE /\ status_callback(player_clients[i] \o " client failed")
                    /\ disk' = disk \ {full_output}
                    /\ attempts' = Resolved("failed")
                    /\ UNCHANGED download_success
            /\ pc' = after_attempt(attempt_ok).pc
            /\ i' = after_attempt(attempt_ok).i
            /\ UNCHANGED <<outcome, terms>>
    /\ UNCHANGED <<gui, video_title, process, code, running, returncode, started>>

\* "All player clients failed. Trying generic extractor ...": no poll, then
\* process = None; run_command(ytdlp_cmd, set_process)
generic_launch ==
    /\ pc = "after_loop" /\ need_generic
    /\ status_callback("All player clients failed. Trying generic extractor")
    /\ \/ /\ process' = "ytdlp"
          /\ running' = "ytdlp"
          /\ started' = Append(started, "ytdlp")
          /\ attempts' = Append(attempts,
                 Attempt("generic", TRUE, hist.polled, hist.cancelReq))
          /\ pc' = "gen_wait"
          /\ UNCHANGED code
       \/ /\ process' = "none"
          /\ code' = 1
          /\ attempts' = Append(attempts,
                 Attempt("generic", FALSE, hist.polled, hist.cancelReq))
          /\ pc' = "gen_resolve"
          /\ UNCHANGED <<running, started>>
    /\ UNCHANGED <<gui, i, video_title, download_success, returncode, disk, outcome,
                   terms, hist>>

generic_return ==
    /\ pc = "gen_wait" /\ running = "none"
    /\ code' = returncode
    /\ pc' = "gen_resolve"
    /\ UNCHANGED <<gui, status_area, sent, i, video_title, download_success, process, env,
                   attempts, started, outcome, terms, hist>>

\* The poll after the generic attempt, then success, or failure and return
generic_resolve ==
    /\ pc = "gen_resolve"
    /\ hist' = [hist EXCEPT !.polled = FALSE, !.cancelReq = FALSE,
                            !.pollTrue = cancel_flag]
    /\ IF cancel_callback
       THEN /\ Terminate
            /\ status_callback("Download cancelled.")
            /\ outcome' = "download_cancelled"
            /\ UNCHANGED disk
            /\ attempts' = Resolved("cancelled")
            /\ pc' = "returned"
            /\ UNCHANGED download_success
       ELSE IF attempt_ok
       THEN /\ status_callback("Download successful using generic extractor")
            /\ download_success' = TRUE
            /\ UNCHANGED disk
            /\ attempts' = Resolved("success")
            /\ pc' = "after_loop"
            /\ UNCHANGED <<outcome, terms>>
       ELSE /\ status_area' = "text"
            /\ sent' = sent \o
                   <<"Generic extractor failed", "All extraction methods failed">>
            /\ disk' = disk \ {full_output}
            /\ attempts' = Resolved("failed")
            /\ outcome' = "all_failed"
            /\ pc' = "returned"
            /\ UNCHANGED <<download_success, terms>>
    /\ UNCHANGED <<gui, i, video_title, process, code, running, returncode, started>>

\* "Trimming video with ffmpeg...", run_command(ffmpeg_cmd, set_process): no poll
\* before it; `process` keeps its old value when Popen raises
trim_launch ==
    /\ pc = "after_loop" /\ ~need_generic
    /\ status_callback("Trimming video with ffmpeg")
    /\ hist' = [hist EXCEPT !.trimStarted = TRUE, !.trimPending = hist.cancelReq]
    /\ \/ /\ process' = "ffmpeg"
          /\ running' = "ffmpeg"
          /\ started' = Append(started, "ffmpeg")
          /\ pc' = "trim_wait"
          /\ UNCHANGED code
       \/ /\ code' = 1
          /\ pc' = "trim_resolve"
          /\ UNCHANGED <<process, running, started>>
    /\ UNCHANGED <<gui, i, video_title, download_success, returncode, disk, attempts,
                   outcome, terms>>

trim_return ==
    /\ pc = "trim_wait" /\ running = "none"
    /\ code' = returncode
    /\ pc' = "trim_resolve"
    /\ UNCHANGED <<gui, status_area, sent, i, video_title, download_success, process, env,
                   attempts, started, outcome, terms, hist>>

\* The poll after ffmpeg, then "Clip saved" or "ffmpeg failed"; the full
\* download is removed on each of the three paths, the clip on none
trim_resolve ==
    /\ pc = "trim_resolve"
    /\ hist' = [hist EXCEPT !.cancelReq = FALSE, !.pollTrue = cancel_flag]
    /\ IF cancel_callback
       THEN /\ Terminate
            /\ status_callback("Trimming cancelled.")
            /\ outcome' = "trim_cancelled"
       ELSE IF code = 0 /\ clipped_output \in disk
       THEN /\ status_callback("Clip saved")
            /\ outcome' = "saved"
            /\ UNCHANGED terms
       ELSE /\ status_callback("ffmpeg failed")
            /\ outcome' = "ffmpeg_failed"
            /\ UNCHANGED terms
    /\ disk' = disk \ {full_output}
    /\ pc' = "returned"
    /\ UNCHANGED <<gui, locals, running, returncode, attempts, started>>

----------------------------------------------------------------------------

Next ==
    \/ trim_clip
    \/ cancel_operation
    \/ reset_form
    \/ download_task_end
    \/ download_task_exit
    \/ title_exit
    \/ ytdlp_exit
    \/ ffmpeg_exit
    \/ dc_enter
    \/ get_title_call
    \/ get_title_return
    \/ loop_poll
    \/ client_launch
    \/ client_return
    \/ client_resolve
    \/ generic_launch
    \/ generic_return
    \/ generic_resolve
    \/ trim_launch
    \/ trim_return
    \/ trim_resolve

Spec == Init /\ [][Next]_vars

\* A step of the thread inside download_task, or the exit of the process it
\* waits for
WorkerStep ==
    \/ dc_enter \/ get_title_call \/ get_title_return
    \/ loop_poll \/ client_launch \/ client_return \/ client_resolve
    \/ generic_launch \/ generic_return \/ generic_resolve
    \/ trim_launch \/ trim_return \/ trim_resolve
    \/ title_exit \/ ytdlp_exit \/ ffmpeg_exit
    \/ download_task_end

\* The threads are scheduled and every external process exits in the end
FairSpec == Spec /\ WF_vars(WorkerStep) /\ WF_vars(download_task_exit)

----------------------------------------------------------------------------
(* Filename and time helpers.  A string is a sequence of one-character      *)
(* strings.                                                                *)

\* string.ascii_letters
ascii_letters == {
    "a", "b", "c", "d", "e", "f", "g", "h", "i", "j", "k", "l", "m",
    "n", "o", "p", "q", "r", "s", "t", "u", "v", "w", "x", "y", "z",
    "A", "B", "C", "D", "E", "F", "G", "H", "I", "J", "K", "L", "M",
    "N", "O", "P", "Q", "R", "S", "T", "U", "V", "W", "X", "Y", "Z" }

\* string.digits
digits == {
    "0", "1", "2", "3", "4", "5", "6", "7", "8", "9" }

\* illegal_chars = '<>:"/\\|?*'
illegal_chars == {"<", ">", ":", "\"", "/", "\\", "|", "?", "*"}

\* safe_chars = string.ascii_letters + string.digits + ' -_'
safe_chars == ascii_letters \cup digits \cup {" ", "-", "_"}

\* Limit of len(safe_title)
MaxTitleLen == 100

placeholder == <<"y", "o", "u", "t", "u", "b", "e", "_", "v", "i", "d", "e", "o">>

\* str.replace(old, new) for one-character old and new
replace(str, old, new) == [k \in DOMAIN str |-> IF str[k] = old THEN new ELSE str[k]]

\* for char in illegal_chars: title = title.replace(char, '_')
replace_illegal(str) == [k \in DOMAIN str |-> IF str[k] \in illegal_chars THEN "_" ELSE str[k]]

IsSafe(c) == c \in safe_chars

\* ''.join(c for c in title if c in safe_chars)
keep_safe(str) == SelectSeq(str, IsSafe)

RECURSIVE lstrip(_, _)
lstrip(str, chars) ==
    IF str # << >> /\ Head(str) \in chars THEN lstrip(Tail(str), chars) ELSE str

RECURSIVE rstrip(_, _)
rstrip(str, chars) ==
    IF str # << >> /\ str[Len(str)] \in chars
    THEN rstrip(SubSeq(str, 1, Len(str) - 1), chars)
    ELSE str

\* str.strip(chars)
strip(str, chars) == rstrip(lstrip(str, chars), chars)

\* (mutant) no length limit
truncate_not(str) == str

\* if len(safe_title) > 100: safe_title = safe_title[:100]
truncate(str) == IF Len(str) > MaxTitleLen THEN SubSeq(str, 1, MaxTitleLen) ELSE str

sanitize_filename(title) ==
    LET safe_title == truncate(strip(keep_safe(replace_illegal(title)), {" ", "_"}))
    IN  IF safe_title = << >> THEN placeholder ELSE safe_title

\* The decimal digits in order
DigitSeq == <<"0", "1", "2", "3", "4", "5", "6", "7", "8", "9">>

DigitVal(c) == (CHOOSE k \in DOMAIN DigitSeq : DigitSeq[k] = c) - 1

RECURSIVE Decimal(_)
Decimal(str) ==
    IF str = << >> THEN 0
    ELSE Decimal(SubSeq(str, 1, Len(str) - 1)) * 10 + DigitVal(str[Len(str)])

IsDigit(c) == c \in digits

\* int(x): surrounding blanks, an optional sign, then decimal digits that single
\* underscores may separate; anything else raises ValueError
IntBody(x) ==
    LET t == strip(x, {" "})
    IN  IF t # << >> /\ Head(t) \in {"+", "-"} THEN Tail(t) ELSE t

IntParses(x) ==
    LET b == IntBody(x)
    IN  /\ b # << >>
        /\ \A k \in DOMAIN b : b[k] \in digits \cup {"_"}
        /\ b[1] # "_" /\ b[Len(b)] # "_"
        /\ \A k \in 1..(Len(b) - 1) : ~(b[k] = "_" /\ b[k + 1] = "_")

IntValue(x) ==
    LET t == strip(x, {" "})
        n == Decimal(SelectSeq(IntBody(x), IsDigit))
    IN  IF Head(t) = "-" THEN 0 - n ELSE n

\* What "int(x) if x else 0" makes of the text x of an entry field
entry(x) ==
    IF x = << >> THEN Empty
    ELSE IF IntParses(x) THEN Field(IntValue(x))
    ELSE Text

RECURSIVE Dec(_)
Dec(n) ==
    IF n < 10 THEN <<DigitSeq[n + 1]>>
    ELSE Dec(n \div 10) \o <<DigitSeq[(n % 10) + 1]>>

\* (mutant) f"{n:d}"
fmt02d_unpadded(n) == IF n < 0 THEN <<"-">> \o Dec(0 - n) ELSE Dec(n)

\* f"{n:02d}"
fmt02d(n) ==
    IF n < 0 THEN <<"-">> \o Dec(0 - n)
    ELSE IF n < 10 THEN <<"0">> \o Dec(n)
    ELSE Dec(n)

\* f"{hours:02d}:{minutes:02d}:{seconds:02d}" of an (h, m, s) triple of fields
format_time(t) ==
    fmt02d(IntOf(t[1])) \o <<":">> \o fmt02d(IntOf(t[2])) \o <<":">> \o fmt02d(IntOf(t[3]))

\* (mutant) the time string is used as it is
format_time_for_filename_same(time_str) == time_str

\* time_str.replace(':', '-')
format_time_for_filename(time_str) == replace(time_str, ":", "-")

\* What get_video_title returns for yt-dlp's exit status and output; << >> is None
get_video_title(rc, stdout) ==
    IF rc = 0 THEN sanitize_filename(strip(stdout, {" "})) ELSE << >>

\* The name of the clip file, from the title lookup, the clock and the two times
clipped_name(rc, stdout, stamp, start, end) ==
    LET title == get_video_title(rc, stdout)
        name  == IF title = << >> THEN <<"y", "t", "_", "v", "i", "d", "e", "o", "_">> \o stamp ELSE title
    IN  name \o <<"_", "c", "l", "i", "p", "_">> \o format_time_for_filename(start)
             \o <<"_", "t", "o", "_">> \o format_time_for_filename(end)
             \o <<".", "m", "p", "4">>

----------------------------------------------------------------------------
(* The helper functions on their own: an input is drawn, the functions are  *)
(* applied to it as the program applies them.                               *)

\* Longest run of characters around the ends of a title
MaxTail == 3

\* One character of each kind: safe, stripped at the ends, replaced, dropped
TitleAlphabet == {"b", " ", "_", "<", "!"}

Tails == UNION {[1..k -> TitleAlphabet] : k \in 0..MaxTail}

Pad(n) == [k \in 1..n |-> "a"]

\* Titles around the length limit, and short ones
PadLens == {0} \cup ((MaxTitleLen - MaxTail)..MaxTitleLen)

Titles == {h \o Pad(n) \o t : h \in {<< >>, <<" ">>}, n \in PadLens, t \in Tails}

MyVideo == <<"M", "y", " ", "V", "i", "d", "e", "o">>

\* Titles whose clip name is built
ClipTitles == {MyVideo, <<"a", "/", "b", ":", " ", "c", "?">>, <<"!", "!">>, Pad(MaxTitleLen) \o <<"b">>}

\* datetime.now().strftime('%Y%m%d_%H%M%S') at some moment
Stamp == <<"2", "0", "2", "4", "0", "1", "3", "1", "_", "2", "3", "5", "9", "5", "9">>

\* Texts of an entry field, each with what it stands for: whether it is a
\* numeral, and its value
FieldTexts ==
    {
      [text |-> << >>, num |-> TRUE, val |-> 0],
      [text |-> <<"0">>, num |-> TRUE, val |-> 0],
      [text |-> <<"7">>, num |-> TRUE, val |-> 7],
      [text |-> <<"0", "7">>, num |-> TRUE, val |-> 7],
      [text |-> <<"2", "3">>, num |-> TRUE, val |-> 23],
      [text |-> <<"2", "4">>, num |-> TRUE, val |-> 24],
      [text |-> <<"5", "9">>, num |-> TRUE, val |-> 59],
      [text |-> <<"6", "0">>, num |-> TRUE, val |-> 60],
      [text |-> <<"-", "1">>, num |-> TRUE, val |-> -1],
      [text |-> <<"-", "0">>, num |-> TRUE, val |-> 0],
      [text |-> <<"+", "5">>, num |-> TRUE, val |-> 5],
      [text |-> <<"x">>, num |-> FALSE, val |-> 0],
      [text |-> <<"1", "x">>, num |-> FALSE, val |-> 0] }

TimeTexts == FieldTexts \X FieldTexts \X FieldTexts

\* Times with which a clip is requested
ClipTimes ==
    { <<<< >>, << >>, <<"1", "0">>>>,
      <<<<"0">>, <<"1">>, << >>>>,
      <<<<"2", "3">>, <<"5", "9">>, <<"5", "9">>>> }

fields(t) == <<entry(t[1]), entry(t[2]), entry(t[3])>>

FnInputs ==
    {[op |-> "sanitize", in |-> x, outs |-> << >>] : x \in Titles}
    \cup {[op |-> "time", in |-> x, outs |-> << >>] : x \in TimeTexts}
    \cup {[op |-> "clip", in |-> [rc |-> r, stdout |-> x, start |-> a, end |-> b], outs |-> << >>] :
              r \in ExitCodes, x \in ClipTitles, a \in ClipTimes, b \in ClipTimes}

pipeline == <<url, cancel_flag, trim_btn, cancel_btn, trim_another_btn, status_area,
              threads, pc, i, video_title, download_success, process, code,
              running, returncode, disk, attempts, started, outcome, terms, hist,
              finishing, sent>>

FnInit == Constructed /\ fn \in FnInputs

\* sanitize_filename applied to a title, and again to its own result
sanitize_call ==
    /\ fn.op = "sanitize"
    /\ Len(fn.outs) < 2
    /\ fn' = [fn EXCEPT !.outs = Append(@, sanitize_filename(IF @ = << >> THEN fn.in ELSE @[Len(@)]))]
    /\ UNCHANGED pipeline

\* trim_clip's check of one time: is_valid_time, then format_time if it passed
time_call ==
    /\ fn.op = "time"
    /\ fn.outs = << >>
    /\ LET t == fields(<<fn.in[1].text, fn.in[2].text, fn.in[3].text>>)
       IN  fn' = [fn EXCEPT !.outs =
                     <<[valid |-> is_valid_time(t),
                        text  |-> IF is_valid_time(t) THEN format_time(t) ELSE << >>]>>]
    /\ UNCHANGED pipeline

\* trim_clip formats the two times, download_and_clip builds the clip's name
clip_call ==
    /\ fn.op = "clip"
    /\ fn.outs = << >>
    /\ is_valid_time(fields(fn.in.start)) /\ is_valid_time(fields(fn.in.end))
    /\ fn' = [fn EXCEPT !.outs =
                  <<clipped_name(fn.in.rc, fn.in.stdout, Stamp,
                                 format_time(fields(fn.in.start)),
                                 format_time(fields(fn.in.end)))>>]
    /\ UNCHANGED pipeline

FnNext == sanitize_call \/ time_call \/ clip_call

FnSpec == FnInit /\ [][FnNext]_vars

----------------------------------------------------------------------------
(* Properties *)

Names(seq) == {seq[k].name : k \in DOMAIN seq}
Spawned(kind) == \E k \in DOMAIN started : started[k] = kind
Cancelled == outcome \in {"download_cancelled", "trim_cancelled"}
Order == player_clients \o <<"generic">>

\* C1: once download_and_clip has returned, the intermediate full-download
\* file does not exist on disk, whatever the exit path.
C1_NoFullFileAfterReturn ==
    pc = "returned" => full_output \notin disk

\* C2: if the cancel predicate is true when download_and_clip is entered, the
\* run ends Cancelled and no external process at all (title lookup,
\* downloader, transcoder) was started.
C2_CancelledOnEntryStartsNothing ==
    (pc = "returned" /\ hist.enteredCancelled) =>
        (Cancelled /\ started = << >>)

\* C3: if cancellation is requested while the trim step is in progress, then
\* when the run returns the intermediate file is deleted, no clip file exists
\* and the outcome is Cancelled.
C3_CancelDuringTrim ==
    (pc = "returned" /\ hist.cancelInTrim) =>
        /\ full_output \notin disk
        /\ clipped_output \notin disk
        /\ outcome = "trim_cancelled"

\* C4: the named strategies are attempted in the order android, web, ios, each
\* at most once; an attempt is started only after the one before it was judged
\* failed; no downloader attempt follows one judged successful, so at most one
\* attempt of a run is judged successful.
C4_StrategyOrder ==
    /\ Len(attempts) <= Len(Order)
    /\ \A k \in DOMAIN attempts : attempts[k].name = Order[k]
    /\ \A k \in DOMAIN attempts : k < Len(attempts) => attempts[k].verdict = "failed"
    /\ Cardinality({k \in DOMAIN attempts : attempts[k].verdict = "success"}) <= 1

C4_Witness ==
    /\ pc = "returned" /\ outcome = "saved"
    /\ Len(attempts) = 2
    /\ attempts[1].verdict = "failed"
    /\ attempts[2].name = "web" /\ attempts[2].verdict = "success"

NamedAllFailed ==
    /\ Len(attempts) >= Len(player_clients)
    /\ \A k \in 1..Len(player_clients) :
           attempts[k].name = player_clients[k] /\ attempts[k].verdict = "failed"

\* C5: the generic fallback is started iff all three named strategies were
\* attempted and each judged failed; it is started at most once; and when it
\* fails too the run ends Failed without starting the transcoder.
C5_GenericFallback ==
    /\ "generic" \in Names(attempts) => NamedAllFailed
    /\ (NamedAllFailed /\ pc # "after_loop") => "generic" \in Names(attempts)
    /\ (NamedAllFailed /\ pc = "after_loop" /\ "generic" \notin Names(attempts))
            => ENABLED generic_launch /\ ~ENABLED trim_launch
    /\ Cardinality({k \in DOMAIN attempts : attempts[k].name = "generic"}) <= 1
    /\ \A k \in DOMAIN attempts :
          (attempts[k].name = "generic" /\ attempts[k].verdict = "failed") =>
              /\ pc = "returned" /\ outcome = "all_failed"
              /\ ~hist.trimStarted /\ ~Spawned("ffmpeg")

C5_Witness ==
    /\ pc = "returned" /\ outcome = "all_failed"
    /\ NamedAllFailed
    /\ Len(attempts) = 4 /\ attempts[4].name = "generic"

C7_OwnPollBeforeEveryAttempt ==
    \A k \in DOMAIN attempts :
        /\ attempts[k].ownPoll
        /\ attempts[k].spawned => ~attempts[k].pending

\* C8: a cancel requested after the successful download's post-exit check and
\* before the transcoder launch keeps the transcoder from being started.
C8_PollBeforeTrim ==
    ~(hist.trimPending /\ Spawned("ffmpeg"))

\* C9: when cancellation is observed, terminate (then kill) is issued to an
\* external process that is still running.
C9_TerminateHitsRunningProcess ==
    \A k \in DOMAIN terms : terms[k] = "running"

\* C10: a clip file written by a run is on disk at the end of the run only if
\* the run ended "Clip saved".
C10_ClipOnlyOnSuccess ==
    (pc = "returned" /\ outcome # "saved") =>
        ~(hist.clipWritten /\ clipped_output \in disk)

LastAttempt == attempts[Len(attempts)]

\* C11: the transcoder is started only when a downloader attempt of this run
\* has exited with code 0 with the intermediate file present, no downloader is
\* still running and the file is still on disk; never after exhaustion of the
\* strategies nor after an observed cancellation.
C11_TrimOnlyAfterDownload ==
    /\ (pc = "after_loop" /\ download_success) =>
          /\ running = "none"
          /\ full_output \in disk
    /\ hist.trimStarted =>
          /\ Len(attempts) >= 1
          /\ LastAttempt.verdict = "success"
          /\ LastAttempt.code = 0 /\ LastAttempt.present
          /\ \A k \in DOMAIN attempts : attempts[k].verdict # "cancelled"
          /\ outcome \notin {"download_cancelled", "all_failed"}
          /\ running \in {"none", "ffmpeg"}
    /\ pc \in {"trim_wait", "trim_resolve"} => full_output \in disk

C11_Witness ==
    /\ pc = "trim_wait" /\ running = "ffmpeg"
    /\ Len(attempts) = 4 /\ attempts[4].verdict = "success"

----------------------------------------------------------------------------
(* Properties of the helper functions, checked under FnSpec *)

ClipDone == fn.op = "clip" /\ fn.outs # << >>

\* The example: title "My Video", start 00:00:10, end 00:01:00, title found
IsExample ==
    /\ ClipDone
    /\ fn.in.rc = 0
    /\ fn.in.stdout = MyVideo
    /\ fn.in.start = <<<< >>, << >>, <<"1", "0">>>>
    /\ fn.in.end = <<<<"0">>, <<"1">>, << >>>>

\* A time string with hyphens where time_str has colons
Hyphened(time_str) ==
    [k \in 1..Len(time_str) |-> IF k \in {3, 6} THEN "-" ELSE time_str[k]]

\* The clip's name is <title part>_clip_<start>_to_<end>.mp4 with the two times
\* hyphened; the title part is the sanitized title when the lookup found one
ClipNameShape ==
    ClipDone =>
        LET start == format_time(fields(fn.in.start))
            end   == format_time(fields(fn.in.end))
            title == IF fn.in.rc = 0
                     THEN sanitize_filename(fn.in.stdout)
                     ELSE <<"y", "t", "_", "v", "i", "d", "e", "o", "_">> \o Stamp
        IN  /\ start[3] = ":" /\ start[6] = ":" /\ end[3] = ":" /\ end[6] = ":"
            /\ fn.outs[1] = title \o <<"_", "c", "l", "i", "p", "_">> \o Hyphened(start)
                                  \o <<"_", "t", "o", "_">> \o Hyphened(end)
                                  \o <<".", "m", "p", "4">>
            /\ \A k \in DOMAIN fn.outs[1] : fn.outs[1][k] # ":"

\* C12 as stated: the clip is named <sanitized title>_clip_<start>_to_<end>.mp4
\* with hyphens for the colons of the times, and for the title "My Video",
\* start 00:00:10 and end 00:01:00 the name is
\* My_Video_clip_00-00-10_to_00-01-00.mp4.
C12_ClipNameAsStated ==
    /\ ClipNameShape
    /\ IsExample => fn.outs[1] = <<"M", "y", "_", "V", "i", "d", "e", "o", "_", "c", "l", "i", "p", "_", "0", "0", "-", "0", "0", "-", "1", "0", "_", "t", "o", "_", "0", "0", "-", "0", "1", "-", "0", "0", ".", "m", "p", "4">>

\* C12, amended: the clip is named <title part>_clip_<start>_to_<end>.mp4 with
\* hyphens for the colons of the times, where the title part is the sanitized
\* title when the title lookup succeeded and yt_video_<timestamp> when it did
\* not; the sanitizer keeps spaces, so for the title "My Video", start
\* 00:00:10 and end 00:01:00 the name is My Video_clip_00-00-10_to_00-01-00.mp4.
C12_ClipName ==
    /\ ClipNameShape
    /\ IsExample => fn.outs[1] = <<"M", "y", " ", "V", "i", "d", "e", "o", "_", "c", "l", "i", "p", "_", "0", "0", "-", "0", "0", "-", "1", "0", "_", "t", "o", "_", "0", "0", "-", "0", "1", "-", "0", "0", ".", "m", "p", "4">>

C12_Witness ==
    /\ IsExample
    /\ fn.outs[1] = <<"M", "y", " ", "V", "i", "d", "e", "o", "_", "c", "l", "i", "p", "_", "0", "0", "-", "0", "0", "-", "1", "0", "_", "t", "o", "_", "0", "0", "-", "0", "1", "-", "0", "0", ".", "m", "p", "4">>

\* C13: sanitize_filename applied to its own result returns that result
\* unchanged, for every input, also for inputs longer than the length limit with
\* spaces or underscores around the point of truncation.
C13_Idempotent ==
    (fn.op = "sanitize" /\ Len(fn.outs) = 2) => fn.outs[2] = fn.outs[1]

\* What sanitize_filename must make of input x: result r
SanitizedWell(x, r) ==
    /\ r # << >>
    /\ Len(r) <= 100
    /\ \A k \in DOMAIN r :
          /\ r[k] \in ascii_letters \cup digits \cup {" ", "-", "_"}
          /\ r[k] \notin {"<", ">", ":", "\"", "/", "\\", "|", "?", "*"}
    /\ (\A k \in DOMAIN x : x[k] \notin ascii_letters \cup digits \cup {"-"})
          => r = placeholder

\* C14: the result of sanitize_filename is never empty, is at most 100
\* characters long and holds only ASCII letters, digits, space, hyphen and
\* underscore; an input of which nothing remains gives "youtube_video".
C14_SanitizedResult ==
    fn.op = "sanitize" =>
        /\ Len(fn.outs) >= 1 => SanitizedWell(fn.in, fn.outs[1])
        /\ Len(fn.outs) >= 2 => SanitizedWell(fn.outs[1], fn.outs[2])

C14_Witness ==
    /\ fn.op = "sanitize" /\ Len(fn.outs) >= 1
    /\ Len(fn.in) > 100
    /\ \E k \in DOMAIN fn.in : fn.in[k] = "<"
    /\ Len(fn.outs[1]) = 100

\* C14 also for the placeholder
C14_PlaceholderReached ==
    /\ fn.op = "sanitize" /\ Len(fn.outs) >= 1
    /\ fn.in # << >>
    /\ fn.outs[1] = placeholder

\* The two characters at k, k+1 of str are the two-digit numeral of n
TwoDigits(str, k, n) ==
    /\ IsDigit(str[k]) /\ IsDigit(str[k + 1])
    /\ DigitVal(str[k]) * 10 + DigitVal(str[k + 1]) = n

\* C15: is_valid_time accepts exactly the triples whose components are all
\* numerals or absent (absent counting as 0) with hours in 0..23 and minutes and
\* seconds in 0..59; for an accepted triple format_time gives "HH:MM:SS", two
\* zero-padded digits for each of the same three values.
C15_TimeCheckedAndFormatted ==
    (fn.op = "time" /\ fn.outs # << >>) =>
        LET h == fn.in[1]
            m == fn.in[2]
            s == fn.in[3]
            good == /\ h.num /\ m.num /\ s.num
                    /\ h.val \in 0..23 /\ m.val \in 0..59 /\ s.val \in 0..59
            out == fn.outs[1]
        IN  /\ out.valid <=> good
            /\ out.valid =>
                  /\ Len(out.text) = 8
                  /\ out.text[3] = ":" /\ out.text[6] = ":"
                  /\ TwoDigits(out.text, 1, h.val)
                  /\ TwoDigits(out.text, 4, m.val)
                  /\ TwoDigits(out.text, 7, s.val)

C15_Witness ==
    /\ fn.op = "time" /\ fn.outs # << >>
    /\ fn.in[1].text = << >>
    /\ fn.in[2].text = <<"0", "7">>
    /\ fn.in[3].text = <<"5", "9">>
    /\ fn.outs[1].valid
    /\ fn.outs[1].text = <<"0", "0", ":", "0", "7", ":", "5", "9">>

\* C15 also for a rejected triple
C15_RejectReached ==
    /\ fn.op = "time" /\ fn.outs # << >>
    /\ fn.in[1].val = 24
    /\ ~fn.outs[1].valid

----------------------------------------------------------------------------
(* Properties of the application, checked under Spec *)

\* Threads of download_task that have been started and have not ended
RunThreads == (IF pc # "idle" THEN 1 ELSE 0) + (IF finishing THEN 1 ELSE 0)

\* C16: at most one run is active at any time: while a run is active the Trim
\* button is disabled, so no second run can be started, and the only live
\* download_task threads are the one of the active run and one that has
\* finished its run and has its last statement left.
C16_OneRunAtATime ==
    /\ pc # "idle" => trim_btn = "disabled"
    /\ threads = RunThreads

C16_Witness ==
    /\ pc = "wait" /\ running = "ytdlp"
    /\ finishing /\ threads = 2
    /\ trim_another_btn
    /\ trim_btn = "disabled"

\* The lines download_and_clip has handed to the status sink in this run
RunLines == SelectSeq(sent, LAMBDA l : l # "Cancelling...")

\* The line that announces an attempt, and the lines that report how it ended
Announcement(name) ==
    IF name = "generic" THEN "All player clients failed. Trying generic extractor"
    ELSE "Trying " \o name
SuccessLine(name) ==
    IF name = "generic" THEN "Download successful using generic extractor"
    ELSE "Download successful using " \o name
FailureLine(name) ==
    IF name = "generic" THEN "Generic extractor failed"
    ELSE name \o " client failed"

Announcements == {Announcement(Order[k]) : k \in DOMAIN Order}

IsAnnouncement(l) == l \in Announcements

\* Positions in lines of the announcements, in order
AnnouncedAt(lines) ==
    SelectSeq([k \in DOMAIN lines |-> k], LAMBDA k : IsAnnouncement(lines[k]))

\* The lines after the k-th announcement, up to the next announcement
LinesAfter(lines, at, k) ==
    SubSeq(lines, at[k] + 1, IF k < Len(at) THEN at[k + 1] - 1 ELSE Len(lines))

Count(seq, l) == Cardinality({k \in DOMAIN seq : seq[k] = l})

\* C18: every downloader attempt is announced by a status line before its
\* process is started, and once the process has exited and the attempt is
\* resolved, exactly one line reports how that attempt ended (success, failure
\* or cancelled), before any further attempt is announced; until then no such
\* line is sent.
C18_StatusLinesAroundAttempts ==
    LET lines == RunLines
        at    == AnnouncedAt(lines)
    IN  /\ Len(at) \in {Len(attempts), Len(attempts) + 1}
        /\ Len(at) = Len(attempts) + 1 => pc = "launch"
        /\ \A k \in DOMAIN attempts :
              LET a     == attempts[k]
                  after == LinesAfter(lines, at, k)
                  ok    == Count(after, SuccessLine(a.name))
                  bad   == Count(after, FailureLine(a.name))
                  stop  == Count(after, "Download cancelled.")
              IN  /\ lines[at[k]] = Announcement(a.name)
                  /\ a.verdict = "pending"   => ok = 0 /\ bad = 0 /\ stop = 0
                  /\ a.verdict = "success"   => ok = 1 /\ bad = 0 /\ stop = 0
                  /\ a.verdict = "failed"    => ok = 0 /\ bad = 1
                  /\ a.verdict = "cancelled" => ok = 0 /\ bad = 0 /\ stop = 1
                  /\ (a.verdict = "failed" /\ stop # 0) =>
                        /\ stop = 1 /\ k = Len(attempts)
                        /\ outcome = "download_cancelled"
                        /\ after[Len(after)] = "Download cancelled."
                  /\ a.verdict # "pending" =>
                        (k = Len(attempts) => running # "ytdlp")
        /\ running = "ytdlp" =>
              /\ attempts # << >>
              /\ attempts[Len(attempts)].verdict = "pending"

C18_Witness ==
    /\ Len(attempts) = 4
    /\ attempts[1].verdict = "failed" /\ attempts[4].verdict = "cancelled"
    /\ CancelLines = 1
    /\ outcome = "download_cancelled"

\* What the user typed is no clip request: the URL is not a YouTube address, or
\* a time has a component that is no numeral or is out of range
BadUrl(u) == u.host \notin {"youtube.com", "youtu.be"}
BadTime(t) ==
    \/ \E k \in 1..3 : t[k].k = "text"
    \/ t[1].k = "int" /\ t[1].v \notin 0..23
    \/ \E k \in 2..3 : t[k].k = "int" /\ t[k].v \notin 0..59

\* C17: a press of Trim with an invalid URL, start or end starts no thread and
\* no process and leaves the cancel flag and the buttons as they were.
C17_InvalidInputRejected ==
    [][\A u \in Urls, st \in Times, en \in Times :
          ( /\ BadUrl(u) \/ BadTime(st) \/ BadTime(en)
            /\ trim_clip_rejected(u, st, en) \/ trim_clip_started(u, st, en) )
          => UNCHANGED <<threads, pc, started, running, cancel_flag,
                         trim_btn, cancel_btn, trim_another_btn>>]_vars

\* An invalid request was made and rejected, the cancel flag still set
C17_Witness ==
    /\ BadUrl(url) /\ url # NoUrl
    /\ threads = 0 /\ pc = "idle" /\ started = << >> /\ running = "none"
    /\ cancel_flag
    /\ trim_btn = "normal" /\ cancel_btn = "normal"

Sent(l) == \E k \in DOMAIN sent : sent[k] = l

\* C19: when the cancel predicate is true at the poll made right after a
\* downloader or ffmpeg process has exited, the run ends cancelled whatever the
\* exit status was: download_and_clip returns, no success line is sent for
\* that step and no further process is started.
C19_CancelAfterExitWins ==
    hist.pollTrue =>
        /\ pc = "returned"
        /\ running = "none"
        /\ outcome \in {"download_cancelled", "trim_cancelled"}
        /\ outcome = "download_cancelled" =>
              /\ attempts # << >>
              /\ LastAttempt.verdict = "cancelled"
              /\ ~Sent(SuccessLine(LastAttempt.name))
              /\ ~download_success
              /\ ~Spawned("ffmpeg")
              /\ Count(started, "ytdlp") =
                    Cardinality({k \in DOMAIN attempts : attempts[k].spawned})
        /\ outcome = "trim_cancelled" =>
              /\ hist.trimStarted
              /\ ~Sent("Clip saved") /\ ~Sent("ffmpeg failed")
              /\ Count(started, "ffmpeg") <= 1
              /\ \A k \in DOMAIN started : started[k] = "ffmpeg" => k = Len(started)

\* Cancelled although yt-dlp exited with 0 and the file is there
C19_Witness ==
    /\ hist.pollTrue
    /\ outcome = "download_cancelled"
    /\ LastAttempt.code = 0 /\ LastAttempt.present

\* Cancelled although ffmpeg exited with 0 and wrote the clip
C19_TrimReached ==
    /\ hist.pollTrue
    /\ outcome = "trim_cancelled"
    /\ returncode = 0 /\ clipped_output \in disk /\ hist.clipWritten

\* C20: the Trim Another Clip button becomes visible only when the run that
\* just ended saved a clip, not after a run that ended in a failed download, a
\* failed trim or a cancellation.
C20_TrimAnotherOnlyAfterSuccess ==
    [][(~trim_another_btn /\ trim_another_btn') => outcome = "saved"]_vars

\* The worker's next step is a poll of the cancel predicate
AtPoll == pc \in {"loop_head", "resolve", "gen_resolve", "trim_resolve"}

\* C21: a cancel request is never lost: once Cancel has been pressed during a
\* run, every later poll of that run finds the cancel predicate true, whatever
\* the user does in between (Trim Another Clip included).
C21_CancelNeverLost ==
    (AtPoll /\ CancelLines >= 1) => cancel_callback

\* The lines that report how a run ended
TerminalLines ==
    {"Clip saved", "Download cancelled.", "Trimming cancelled.",
     "All extraction methods failed", "ffmpeg failed"}

TerminalCount == Cardinality({k \in DOMAIN sent : sent[k] \in TerminalLines})

\* At most six processes, and one terminal line once the run has returned
RunBounded ==
    /\ Len(started) <= 6
    /\ Count(started, "title") <= 1
    /\ Count(started, "ytdlp") <= 4
    /\ Count(started, "ffmpeg") <= 1
    /\ Len(attempts) <= 4
    /\ Cardinality({k \in DOMAIN attempts : attempts[k].name # "generic"}) <= 3
    /\ InRun => TerminalCount = 0
    /\ pc = "returned" => TerminalCount = 1

\* Every run returns from download_and_clip
RunTerminates == (pc # "idle") ~> (pc = "returned")

\* C22: if every external process exits, every run of download_and_clip
\* terminates, has started at most six processes (one title lookup, at most
\* three named attempts, one generic attempt, one ffmpeg) and has reported
\* exactly one terminal outcome: clip saved, download or trim cancelled, all
\* extraction methods failed, or ffmpeg failed.
C22_TerminatesWithOneOutcome == []RunBounded /\ RunTerminates

\* The buttons while download_and_clip is running
ButtonsDuringRun == InRun => (trim_btn = "disabled" /\ cancel_btn = "normal")

\* The buttons after download_and_clip has returned or raised
TrimEnabledAgain    == (pc = "returned") ~> (trim_btn = "normal")
CancelDisabledAgain == (pc = "returned") ~> (cancel_btn = "disabled")

\* C23: while a run is active the Trim button is disabled and the Cancel
\* button is enabled; after every run, however it ended, the Trim button is
\* enabled again and the Cancel button disabled in the end.
C23_ButtonsFollowTheRun ==
    /\ []ButtonsDuringRun
    /\ TrimEnabledAgain
    /\ CancelDisabledAgain

====
